---- MODULE Spec2Model ----
(***************************************************************************)
(* Model of src/server.py: the in-memory TabManager registry, the tools    *)
(* registered on the FastMCP app, and the run_workflow step runner.        *)
(*                                                                         *)
(* Python values are modelled as follows.  Strings are TLA+ strings, a     *)
(* dict is a function whose DOMAIN is the set of its keys, a list is a     *)
(* sequence.  None is the distinguished string None below, which is not    *)
(* among the strings any input set offers as a real str.                   *)
(***************************************************************************)
EXTENDS Integers, Sequences, FiniteSets, TLC

VARIABLES
    tabs,      \* TAB_MANAGER.tabs : tab id -> [url, history, data]
    counter,   \* TAB_MANAGER.counter
    runs,      \* the run_workflow invocations: their frames and returned value
    last,      \* the most recent tool call: its arguments and its outcome
    tick,      \* flips whenever a tool call completes (tells calls apart)
    issued,    \* history: every tab id a creation has returned
    closed,    \* history: every tab id a close_tab has succeeded on
    pending,   \* the handlers that are between two statements of an update
    nops       \* tool calls admitted so far (bounds the exploration)

vars == <<tabs, counter, runs, last, tick, issued, closed, pending, nops>>

-----------------------------------------------------------------------------
(* Bounds of the exploration *)

\* Tool calls one behaviour makes, directly or as workflow steps.
MaxOps == 3

-----------------------------------------------------------------------------
(* Python values *)

None == "<None>"
EmptyDict == <<>>
DefaultUrl == "about:blank"

\* Python truthiness of an Optional[str]: None and "" are falsy.
Truthy(v) == v /= None /\ v /= ""

\* str.startswith
StartsWith(s, p) == Len(s) >= Len(p) /\ SubSeq(s, 1, Len(p)) = p

\* f"tab-{n}"
TabId(n) == "tab-" \o ToString(n)

\* dict.get(key, default)
Get(d, key, default) == IF key \in DOMAIN d THEN d[key] ELSE default

\* d[key] = value on a dict d
Put(d, key, value) == [k \in DOMAIN d \cup {key} |-> IF k = key THEN value ELSE d[k]]

\* del d[key]
Del(d, key) == [k \in DOMAIN d \ {key} |-> d[k]]

Last(s) == s[Len(s)]
Front(s) == SubSeq(s, 1, Len(s) - 1)

-----------------------------------------------------------------------------
(* Outcomes of a call: the registry it leaves and what it returned/raised *)

Ok(T, c, result) == [ok |-> TRUE, tabs |-> T, counter |-> c, result |-> result]
Raise(T, c, message) == [ok |-> FALSE, tabs |-> T, counter |-> c, error |-> message]

UnknownTab(tab_id) == "Unknown tab: " \o tab_id

-----------------------------------------------------------------------------
(* class TabManager *)

\* Variant: numbers the new tab by the count of open tabs.
TabManager_new_tab_ByOpenCount(T, c, url) ==
    LET c2 == c + 1
        tab_id == TabId(Cardinality(DOMAIN T) + 1)
        u == IF Truthy(url) THEN url ELSE DefaultUrl
    IN  [tabs |-> Put(T, tab_id, [url |-> u, history |-> <<u>>, data |-> EmptyDict]),
         counter |-> c2,
         tab_id |-> tab_id]

TabManager_new_tab(T, c, url) ==
    LET c2 == c + 1
        tab_id == TabId(c2)
        u == IF Truthy(url) THEN url ELSE DefaultUrl
    IN  [tabs |-> Put(T, tab_id, [url |-> u, history |-> <<u>>, data |-> EmptyDict]),
         counter |-> c2,
         tab_id |-> tab_id]

\* Variant: acknowledges the close and leaves the tab in the registry.
TabManager_close_tab_KeepsTab(T, c, tab_id) ==
    IF tab_id \in DOMAIN T
    THEN Ok(T, c, None)
    ELSE Raise(T, c, UnknownTab(tab_id))

TabManager_close_tab(T, c, tab_id) ==
    IF tab_id \in DOMAIN T
    THEN Ok(Del(T, tab_id), c, None)
    ELSE Raise(T, c, UnknownTab(tab_id))

TabManager_list_tabs(T) == DOMAIN T

TabManager_get(T, c, tab_id) ==
    IF tab_id \notin DOMAIN T
    THEN Raise(T, c, UnknownTab(tab_id))
    ELSE Ok(T, c, T[tab_id])

-----------------------------------------------------------------------------
(* The tools *)

\* Variant: the history is replaced by the new location instead of extended.
navigate_page_ResetsHistory(T, c, url, tab_id) ==
    IF ~StartsWith(url, "http")
    THEN Raise(T, c, "URL must start with http or https")
    ELSE LET made == IF ~Truthy(tab_id)
                     THEN TabManager_new_tab(T, c, None)
                     ELSE [tabs |-> T, counter |-> c, tab_id |-> tab_id]
             got == TabManager_get(made.tabs, made.counter, made.tab_id)
         IN  IF ~got.ok
             THEN got
             ELSE LET tab2 == [got.result EXCEPT !.url = url, !.history = <<url>>]
                  IN  Ok(Put(made.tabs, made.tab_id, tab2), made.counter,
                         [tab_id |-> made.tab_id, url |-> url])

\* Variant: opens the session before it looks at the location.
navigate_page_CreatesFirst(T, c, url, tab_id) ==
    LET made == IF ~Truthy(tab_id)
                THEN TabManager_new_tab(T, c, None)
                ELSE [tabs |-> T, counter |-> c, tab_id |-> tab_id]
        got == TabManager_get(made.tabs, made.counter, made.tab_id)
    IN  IF ~StartsWith(url, "http")
        THEN Raise(made.tabs, made.counter, "URL must start with http or https")
        ELSE IF ~got.ok
        THEN got
        ELSE LET tab == got.result
                 tab2 == [tab EXCEPT !.url = url,
                                     !.history = Append(tab.history, url)]
             IN  Ok(Put(made.tabs, made.tab_id, tab2), made.counter,
                    [tab_id |-> made.tab_id, url |-> url])

\* Variant: opens the session at the location it is asked to load.
navigate_page_OpensAtUrl(T, c, url, tab_id) ==
    IF ~StartsWith(url, "http")
    THEN Raise(T, c, "URL must start with http or https")
    ELSE LET made == IF ~Truthy(tab_id)
                     THEN TabManager_new_tab(T, c, url)
                     ELSE [tabs |-> T, counter |-> c, tab_id |-> tab_id]
             got == TabManager_get(made.tabs, made.counter, made.tab_id)
         IN  IF ~got.ok
             THEN got
             ELSE LET tab == got.result
                      tab2 == [tab EXCEPT !.url = url,
                                          !.history = Append(tab.history, url)]
                  IN  Ok(Put(made.tabs, made.tab_id, tab2), made.counter,
                         [tab_id |-> made.tab_id, url |-> url])

navigate_page(T, c, url, tab_id) ==
    IF ~StartsWith(url, "http")
    THEN Raise(T, c, "URL must start with http or https")
    ELSE LET made == IF ~Truthy(tab_id)
                     THEN TabManager_new_tab(T, c, None)
                     ELSE [tabs |-> T, counter |-> c, tab_id |-> tab_id]
             got == TabManager_get(made.tabs, made.counter, made.tab_id)
         IN  IF ~got.ok
             THEN got
             ELSE LET tab == got.result
                      tab2 == [tab EXCEPT !.url = url,
                                          !.history = Append(tab.history, url)]
                  IN  Ok(Put(made.tabs, made.tab_id, tab2), made.counter,
                         [tab_id |-> made.tab_id, url |-> url])

\* Variant: attaches the form to every open session.
fill_form_EveryTab(T, c, selectors_to_values, tab_id) ==
    LET got == TabManager_get(T, c, tab_id)
        filled(tab) == [tab EXCEPT !.data =
                            Put(tab.data, "forms",
                                Append(Get(tab.data, "forms", <<>>), selectors_to_values))]
    IN  IF ~got.ok
        THEN got
        ELSE Ok([id \in DOMAIN T |-> filled(T[id])], c,
                [status |-> "filled",
                 count |-> Cardinality(DOMAIN selectors_to_values)])

fill_form(T, c, selectors_to_values, tab_id) ==
    LET got == TabManager_get(T, c, tab_id)
    IN  IF ~got.ok
        THEN got
        ELSE LET tab == got.result
                 forms == Get(tab.data, "forms", <<>>)
                 tab2 == [tab EXCEPT !.data =
                              Put(tab.data, "forms", Append(forms, selectors_to_values))]
             IN  Ok(Put(T, tab_id, tab2), c,
                    [status |-> "filled",
                     count |-> Cardinality(DOMAIN selectors_to_values)])

click_element(T, c, selector, tab_id) ==
    LET got == TabManager_get(T, c, tab_id)
    IN  IF ~got.ok
        THEN got
        ELSE Ok(T, c, [status |-> "clicked", selector |-> selector])

extract_data(T, c, selectors, tab_id) ==
    LET got == TabManager_get(T, c, tab_id)
    IN  IF ~got.ok
        THEN got
        ELSE Ok(T, c, [data |-> [sel \in {selectors[i] : i \in DOMAIN selectors} |-> ""]])

\* Variant: keeps the path of the screenshot in the data of the session.
capture_screenshot_StoresPath(T, c, tab_id, full_page) ==
    LET got == TabManager_get(T, c, tab_id)
        path == "screenshots/" \o tab_id \o ".png"
    IN  IF ~got.ok
        THEN got
        ELSE Ok(Put(T, tab_id, [got.result EXCEPT !.data = Put(@, "screenshot", path)]), c,
                [path |-> path, full_page |-> full_page])

capture_screenshot(T, c, tab_id, full_page) ==
    LET got == TabManager_get(T, c, tab_id)
    IN  IF ~got.ok
        THEN got
        ELSE Ok(T, c, [path |-> "screenshots/" \o tab_id \o ".png",
                       full_page |-> full_page])

generate_pdf(T, c, tab_id, landscape) ==
    LET got == TabManager_get(T, c, tab_id)
    IN  IF ~got.ok
        THEN got
        ELSE Ok(T, c, [path |-> "pdf/" \o tab_id \o ".pdf", landscape |-> landscape])

\* Variant: the new tab always opens at the default location.
new_tab_IgnoresUrl(T, c, url) ==
    LET made == TabManager_new_tab(T, c, None)
    IN  Ok(made.tabs, made.counter,
           [tab_id |-> made.tab_id, url |-> made.tabs[made.tab_id].url])

new_tab(T, c, url) ==
    LET made == TabManager_new_tab(T, c, url)
        got == TabManager_get(made.tabs, made.counter, made.tab_id)
    IN  IF ~got.ok
        THEN got
        ELSE Ok(made.tabs, made.counter, [tab_id |-> made.tab_id, url |-> got.result.url])

close_tab(T, c, tab_id) ==
    LET shut == TabManager_close_tab(T, c, tab_id)
    IN  IF ~shut.ok
        THEN shut
        ELSE Ok(shut.tabs, shut.counter, [status |-> "closed", tab_id |-> tab_id])

list_tabs(T, c) == Ok(T, c, [tabs |-> TabManager_list_tabs(T)])

\* Variant: pops the history and leaves url as it was.
go_back_KeepsUrl(T, c, tab_id) ==
    LET got == TabManager_get(T, c, tab_id)
    IN  IF ~got.ok
        THEN got
        ELSE LET tab == got.result
             IN  IF Len(tab.history) < 2
                 THEN Raise(T, c, "No history to go back to")
                 ELSE LET tab2 == [tab EXCEPT !.history = Front(tab.history)]
                      IN  Ok(Put(T, tab_id, tab2), c,
                             [tab_id |-> tab_id, url |-> tab2.url])

\* Variant: returns to the previous entry without popping the current one.
go_back_NoPop(T, c, tab_id) ==
    LET got == TabManager_get(T, c, tab_id)
    IN  IF ~got.ok
        THEN got
        ELSE LET tab == got.result
             IN  IF Len(tab.history) < 2
                 THEN Raise(T, c, "No history to go back to")
                 ELSE LET back == tab.history[Len(tab.history) - 1]
                          tab2 == [tab EXCEPT !.url = back,
                                              !.history = Append(tab.history, back)]
                      IN  Ok(Put(T, tab_id, tab2), c,
                             [tab_id |-> tab_id, url |-> tab2.url])

go_back(T, c, tab_id) ==
    LET got == TabManager_get(T, c, tab_id)
    IN  IF ~got.ok
        THEN got
        ELSE LET tab == got.result
             IN  IF Len(tab.history) < 2
                 THEN Raise(T, c, "No history to go back to")
                 ELSE LET popped == Front(tab.history)
                          tab2 == [tab EXCEPT !.history = popped, !.url = Last(popped)]
                      IN  Ok(Put(T, tab_id, tab2), c,
                             [tab_id |-> tab_id, url |-> tab2.url])

-----------------------------------------------------------------------------
(* app.run_tool(tool, **params): keyword binding and dispatch *)

Required(tool) ==
    CASE tool = "navigate_page"      -> {"url"}
      [] tool = "fill_form"          -> {"selectors_to_values", "tab_id"}
      [] tool = "click_element"      -> {"selector", "tab_id"}
      [] tool = "extract_data"       -> {"selectors", "tab_id"}
      [] tool = "capture_screenshot" -> {"tab_id"}
      [] tool = "generate_pdf"       -> {"tab_id"}
      [] tool = "new_tab"            -> {}
      [] tool = "close_tab"          -> {"tab_id"}
      [] tool = "list_tabs"          -> {}
      [] tool = "go_back"            -> {"tab_id"}
      [] tool = "run_workflow"       -> {"steps"}
      [] OTHER                       -> {}

Defaulted(tool) ==
    CASE tool = "navigate_page"      -> {"tab_id"}
      [] tool = "capture_screenshot" -> {"full_page"}
      [] tool = "generate_pdf"       -> {"landscape"}
      [] tool = "new_tab"            -> {"url"}
      [] OTHER                       -> {}

ToolNames ==
    {"navigate_page", "fill_form", "click_element", "extract_data",
     "capture_screenshot", "generate_pdf", "new_tab", "close_tab", "list_tabs",
     "go_back", "run_workflow"}

\* The keyword arguments fit the tool's signature.
Binds(tool, params) ==
    /\ Required(tool) \subseteq DOMAIN params
    /\ DOMAIN params \subseteq Required(tool) \cup Defaulted(tool)

\* Every tool but run_workflow, which the step runner enters frame by frame.
\* The FastMCP app raises for a name that is not registered and Python raises
\* TypeError for keywords that do not fit the signature; the two messages below
\* stand for theirs.
run_tool(T, c, tool, params) ==
    IF tool \notin ToolNames
    THEN Raise(T, c, "Unknown tool: " \o tool)
    ELSE IF ~Binds(tool, params)
    THEN Raise(T, c, tool \o "() got unexpected or missing keyword arguments")
    ELSE CASE tool = "navigate_page" ->
                navigate_page(T, c, params.url, Get(params, "tab_id", None))
           [] tool = "fill_form" ->
                fill_form(T, c, params.selectors_to_values, params.tab_id)
           [] tool = "click_element" ->
                click_element(T, c, params.selector, params.tab_id)
           [] tool = "extract_data" ->
                extract_data(T, c, params.selectors, params.tab_id)
           [] tool = "capture_screenshot" ->
                capture_screenshot(T, c, params.tab_id, Get(params, "full_page", TRUE))
           [] tool = "generate_pdf" ->
                generate_pdf(T, c, params.tab_id, Get(params, "landscape", FALSE))
           [] tool = "new_tab" ->
                new_tab(T, c, Get(params, "url", None))
           [] tool = "close_tab" ->
                close_tab(T, c, params.tab_id)
           [] tool = "list_tabs" ->
                list_tabs(T, c)
           [] tool = "go_back" ->
                go_back(T, c, params.tab_id)

-----------------------------------------------------------------------------
(* run_workflow: one frame per (possibly nested) invocation *)

\* begun holds the index of the step whose `await app.run_tool(...)` is pending.
Frame(steps) ==
    [steps |-> steps, idx |-> 1, results |-> <<>>, broken |-> FALSE, begun |-> {}]

\* The loop of a frame is over: it broke, or the steps are exhausted.
Finished(frame) == frame.broken \/ frame.idx > Len(frame.steps)

\* Variant: numbers the records from 0.
SuccessRecord_ZeroBased(idx, tool, result) ==
    [step |-> idx - 1, tool |-> tool, result |-> result]

\* results.append({"step": idx, "tool": tool, "result": result})
SuccessRecord(idx, tool, result) == [step |-> idx, tool |-> tool, result |-> result]

\* Variant: the record does not carry the message of the error.
ErrorRecord_NoMessage(idx, tool, message) == [step |-> idx, error |-> ""]

\* results.append({"step": idx, "error": str(e)})
ErrorRecord(idx, tool, message) == [step |-> idx, error |-> message]

\* Variant: records the failure and goes on to the next step.
StepFailed_NoBreak(frame, tool, message) ==
    [frame EXCEPT !.results = Append(@, [step |-> frame.idx, error |-> message]),
                  !.idx = @ + 1]

\* Variant: a failed step is tried again.
StepFailed_Retry(frame, tool, message) == frame

\* Variant: stops at the failure without recording it.
StepFailed_NoRecord(frame, tool, message) == [frame EXCEPT !.broken = TRUE]

\* The frame after its current step succeeded / failed.
StepSucceeded(frame, tool, result) ==
    [frame EXCEPT !.results = Append(@, SuccessRecord(frame.idx, tool, result)),
                  !.idx = @ + 1,
                  !.begun = @ \ {frame.idx}]

StepFailed(frame, tool, message) ==
    [frame EXCEPT !.results = Append(@, ErrorRecord(frame.idx, tool, message)),
                  !.broken = TRUE,
                  !.begun = @ \ {frame.idx}]

\* return {"results": results}
Returned(frame) == [results |-> frame.results]

\* Variant: a nested trace that ends in an error fails the step awaiting it.
NestedReturns_Propagates(parent, child) ==
    IF child.broken
    THEN StepFailed(parent, "run_workflow", Last(child.results).error)
    ELSE StepSucceeded(parent, "run_workflow", Returned(child))

\* The nested run_workflow returns its trace to the frame awaiting it: the
\* awaited call did not raise.
NestedReturns(parent, child) ==
    StepSucceeded(parent, "run_workflow", Returned(child))

\* A nested run_workflow that finished returns into the awaiting frame below it,
\* whose step thereby succeeded; that frame may be finished in turn.
RECURSIVE Unwind(_)
Unwind(stack) ==
    IF Len(stack) < 2 \/ ~Finished(Last(stack))
    THEN stack
    ELSE LET parent2 == NestedReturns(stack[Len(stack) - 1], Last(stack))
         IN  Unwind(Append(SubSeq(stack, 1, Len(stack) - 2), parent2))

ReplaceTop(stack, frame) == Append(Front(stack), frame)

\* One iteration of the loop of run_workflow on a step that does not enter a
\* nested run_workflow: the frame and the registry it leaves, and the tool call
\* it made, if it made one.
StepBody(T, c, frame) ==
    LET step == frame.steps[frame.idx]
        tool == Get(step, "tool", None)
        params == Get(step, "params", EmptyDict)
    IN  IF ~Truthy(tool)
        THEN [frame |-> StepFailed(frame, tool, "Step missing 'tool'"),
              tabs |-> T, counter |-> c, called |-> FALSE, raised |-> TRUE]
        ELSE LET out == run_tool(T, c, tool, params)
             IN  [frame |-> IF out.ok
                            THEN StepSucceeded(frame, tool, out.result)
                            ELSE StepFailed(frame, tool, out.error),
                  tabs |-> out.tabs, counter |-> out.counter, called |-> TRUE,
                  raised |-> ~out.ok, tool |-> tool, params |-> params, out |-> out]

\* The current step of the frame awaits a nested run_workflow.
EntersNested(frame) ==
    LET step == frame.steps[frame.idx]
    IN  /\ Get(step, "tool", None) = "run_workflow"
        /\ Binds("run_workflow", Get(step, "params", EmptyDict))

-----------------------------------------------------------------------------
(* Inputs *)

NoSuchTab == "nope"

\* Tab ids a caller may pass: every id issued so far, and one never issued.
TabArgs == {TabId(k) : k \in 1..counter} \cup {NoSuchTab}

NavUrls == {"http://a", "https://b", "httpx", "ftp://c"}
NewTabUrls == {None, "", "http://a"}
Forms == {EmptyDict, [name |-> "x"]}
Selector == "#go"

FlatSteps ==
    { [tool |-> "new_tab"],
      [tool |-> "navigate_page", params |-> [url |-> "http://a", tab_id |-> TabId(1)]],
      [tool |-> "go_back", params |-> [tab_id |-> TabId(1)]],
      [tool |-> "close_tab", params |-> [tab_id |-> TabId(1)]],
      [params |-> EmptyDict],
      [tool |-> ""],
      [tool |-> "bogus"] }

NestedSteps ==
    { [tool |-> "run_workflow", params |-> [steps |-> sub]] :
        sub \in { <<[tool |-> "go_back", params |-> [tab_id |-> TabId(1)]]>>,
                  <<[tool |-> "new_tab"]>> } }

StepChoices == FlatSteps \cup NestedSteps

\* The steps of the invocations followed under fairness and at the grain of
\* asyncio.
CoreSteps ==
    { [tool |-> "new_tab"],
      [tool |-> "navigate_page", params |-> [url |-> "http://a", tab_id |-> TabId(1)]],
      [tool |-> "go_back", params |-> [tab_id |-> TabId(1)]],
      [params |-> EmptyDict],
      [tool |-> "run_workflow",
       params |-> [steps |-> <<[tool |-> "go_back", params |-> [tab_id |-> TabId(1)]]>>]] }

\* The step lists of n steps.
StepLists(n) == [1..n -> StepChoices]

\* Steps of a list, nested ones included (what an invocation reserves of MaxOps).
RECURSIVE Cost(_)
Cost(steps) ==
    IF steps = <<>> THEN 0
    ELSE LET step == Head(steps)
             nested == IF Get(step, "tool", None) = "run_workflow"
                          /\ "steps" \in DOMAIN Get(step, "params", EmptyDict)
                       THEN Cost(step.params.steps) ELSE 0
         IN  1 + nested + Cost(Tail(steps))

Runs == {"r1"}

-----------------------------------------------------------------------------
(* State *)

\* An invocation of run_workflow: the submitted steps, the frames in progress
\* and the returned value; started and raised are history: the indexes of the
\* submitted steps whose iteration began, and of those whose iteration raised.
IdleRun == [status |-> "idle", steps |-> <<>>, stack |-> <<>>, started |-> {},
            raised |-> {}, ret |-> EmptyDict]

NoCall == [tool |-> None, params |-> EmptyDict, ok |-> TRUE, result |-> EmptyDict,
           error |-> None]

CallRecord(tool, params, out) ==
    [tool |-> tool, params |-> params, ok |-> out.ok,
     result |-> IF out.ok THEN out.result ELSE EmptyDict,
     error |-> IF out.ok THEN None ELSE out.error]

\* The tab id a call is addressed to (None when it names none).
AddressedTo(call) == Get(call.params, "tab_id", None)

\* The call asked for a new tab: new_tab, or navigate_page without a tab id.
Creates(call) ==
    \/ call.tool = "new_tab"
    \/ call.tool = "navigate_page" /\ ~Truthy(AddressedTo(call))

\* What a completed tool call does to the state.
Completes(tool, params, out) ==
    LET call == CallRecord(tool, params, out)
    IN  /\ tabs' = out.tabs
        /\ counter' = out.counter
        /\ last' = call
        /\ tick' = 1 - tick
        /\ issued' = IF call.ok /\ Creates(call)
                     THEN issued \cup {call.result.tab_id} ELSE issued
        /\ closed' = IF call.ok /\ call.tool = "close_tab"
                     THEN closed \cup {call.result.tab_id} ELSE closed

Init ==
    /\ tabs = EmptyDict
    /\ counter = 0
    /\ runs = [r \in Runs |-> IdleRun]
    /\ last = NoCall
    /\ tick = 0
    /\ issued = {}
    /\ closed = {}
    /\ pending = {}
    /\ nops = 0

-----------------------------------------------------------------------------
(* Actions: a client invokes one tool *)

Call(tool, params) ==
    /\ nops < MaxOps
    /\ Completes(tool, params, run_tool(tabs, counter, tool, params))
    /\ nops' = nops + 1
    /\ UNCHANGED <<runs, pending>>

NavigatePage ==
    \E url \in NavUrls, tab_id \in TabArgs \cup {None, ""} :
        Call("navigate_page", [url |-> url, tab_id |-> tab_id])

FillForm ==
    \E form \in Forms, tab_id \in TabArgs :
        Call("fill_form", [selectors_to_values |-> form, tab_id |-> tab_id])

ClickElement ==
    \E tab_id \in TabArgs :
        Call("click_element", [selector |-> Selector, tab_id |-> tab_id])

ExtractData ==
    \E tab_id \in TabArgs :
        Call("extract_data", [selectors |-> <<Selector>>, tab_id |-> tab_id])

CaptureScreenshot ==
    \E tab_id \in TabArgs : Call("capture_screenshot", [tab_id |-> tab_id])

GeneratePdf ==
    \E tab_id \in TabArgs : Call("generate_pdf", [tab_id |-> tab_id])

NewTab ==
    \E url \in NewTabUrls : Call("new_tab", [url |-> url])

CloseTab ==
    \E tab_id \in TabArgs : Call("close_tab", [tab_id |-> tab_id])

ListTabs == Call("list_tabs", EmptyDict)

GoBack ==
    \E tab_id \in TabArgs : Call("go_back", [tab_id |-> tab_id])

-----------------------------------------------------------------------------
(* Actions: run_workflow *)

\* The stack after a step, and the run it leaves: done once the outermost
\* frame is finished.
Settle(run, stack) ==
    LET stack2 == Unwind(stack)
    IN  IF Finished(stack2[1]) /\ Len(stack2) = 1
        THEN [run EXCEPT !.status = "done", !.stack = <<>>,
                         !.ret = Returned(stack2[1])]
        ELSE [run EXCEPT !.stack = stack2]

\* Invocation r is entered with the step list: results = [] and the loop begins.
Submit(r, steps) ==
    /\ nops + Cost(steps) <= MaxOps
    /\ nops' = nops + Cost(steps)
    /\ runs' = [runs EXCEPT ![r] =
                  Settle([IdleRun EXCEPT !.status = "running", !.steps = steps],
                         <<Frame(steps)>>)]

\* A client invokes run_workflow(steps).
StartWorkflow(r) ==
    /\ runs[r].status = "idle"
    /\ nops < MaxOps
    /\ \E n \in 0..(MaxOps - nops) : \E steps \in StepLists(n) : Submit(r, steps)
    /\ UNCHANGED <<tabs, counter, last, tick, issued, closed, pending>>

\* A client invokes run_workflow(steps), steps of CoreSteps.
StartCore(r) ==
    /\ runs[r].status = "idle"
    /\ nops < MaxOps
    /\ \E n \in 0..(MaxOps - nops) : \E steps \in [1..n -> CoreSteps] : Submit(r, steps)
    /\ UNCHANGED <<tabs, counter, last, tick, issued, closed, pending>>

\* The innermost frame of invocation r runs its next step.
WorkflowStep(r) ==
    /\ runs[r].status = "running"
    /\ LET run == runs[r]
           stack == run.stack
           top == Last(stack)
           outer == Len(stack) = 1
           began == IF outer THEN [run EXCEPT !.started = @ \cup {top.idx}] ELSE run
       IN  IF EntersNested(top)
           THEN /\ runs' = [runs EXCEPT ![r] =
                       Settle(began,
                              Append(stack, Frame(top.steps[top.idx].params.steps)))]
                /\ UNCHANGED <<tabs, counter, last, tick, issued, closed>>
           ELSE \E done \in {StepBody(tabs, counter, top)} :
                    LET noted == IF outer /\ done.raised
                                 THEN [began EXCEPT !.raised = @ \cup {top.idx}]
                                 ELSE began
                    IN  /\ runs' = [runs EXCEPT ![r] =
                                      Settle(noted, ReplaceTop(stack, done.frame))]
                        /\ IF done.called
                           THEN Completes(done.tool, done.params, done.out)
                           ELSE UNCHANGED <<tabs, counter, last, tick, issued, closed>>
    /\ UNCHANGED <<nops, pending>>

-----------------------------------------------------------------------------
Next ==
    \/ NavigatePage
    \/ FillForm
    \/ ClickElement
    \/ ExtractData
    \/ CaptureScreenshot
    \/ GeneratePdf
    \/ NewTab
    \/ CloseTab
    \/ ListTabs
    \/ GoBack
    \/ \E r \in Runs : StartWorkflow(r)
    \/ \E r \in Runs : WorkflowStep(r)

Spec == Init /\ [][Next]_vars

\* Invocations of run_workflow next to clients that open, close and go back in
\* sessions.  The event loop runs every coroutine that is ready: an invocation
\* whose step can run is not passed over for ever.
NextFair ==
    \/ NewTab
    \/ CloseTab
    \/ GoBack
    \/ \E r \in Runs : StartCore(r)
    \/ \E r \in Runs : WorkflowStep(r)

SpecFair == Init /\ [][NextFair]_vars /\ \A r \in Runs : WF_vars(WorkflowStep(r))

-----------------------------------------------------------------------------
(* The same program at the grain of asyncio: every handler is a coroutine on
   one event loop, which passes from one coroutine to another only where the
   running one awaits or returns.  The only await of the module is
   `await app.run_tool(tool, **params)` in run_workflow; the two statements by
   which navigate_page and go_back update a session have none between them. *)

AsyncRuns == {"r1", "r2"}

\* Variant: the loop may pass to another coroutine between any two statements.
ThreadFree_Always == TRUE

\* No handler is between the two statements of its update, so the event loop
\* can run another coroutine.
ThreadFree == pending = {}

\* Variant: the call is started as a task and the loop goes on at once.
Awaits_Spawned(frame) ==
    [frame EXCEPT !.begun = @ \cup {frame.idx}, !.idx = @ + 1]

\* `await app.run_tool(...)`: the frame stays at its step until the call returns.
Awaits(frame) == [frame EXCEPT !.begun = @ \cup {frame.idx}]

InitAsync ==
    /\ tabs = EmptyDict
    /\ counter = 0
    /\ runs = [r \in AsyncRuns |-> IdleRun]
    /\ last = NoCall
    /\ tick = 0
    /\ issued = {}
    /\ closed = {}
    /\ pending = {}
    /\ nops = 0

\* navigate_page up to `tab["url"] = url`.
NavigateSetsUrl ==
    /\ ThreadFree
    /\ nops < MaxOps
    /\ nops' = nops + 1
    /\ \E url \in NavUrls, tab_id \in TabArgs \cup {None} :
        LET params == [url |-> url, tab_id |-> tab_id]
            made == IF ~Truthy(tab_id)
                    THEN TabManager_new_tab(tabs, counter, None)
                    ELSE [tabs |-> tabs, counter |-> counter, tab_id |-> tab_id]
            got == TabManager_get(made.tabs, made.counter, made.tab_id)
        IN  IF ~StartsWith(url, "http")
            THEN /\ Completes("navigate_page", params,
                            Raise(tabs, counter, "URL must start with http or https"))
                 /\ UNCHANGED pending
            ELSE IF ~got.ok
            THEN /\ Completes("navigate_page", params, got)
                 /\ UNCHANGED pending
            ELSE /\ tabs' = Put(made.tabs, made.tab_id, [got.result EXCEPT !.url = url])
                 /\ counter' = made.counter
                 /\ pending' = pending \cup {[tool |-> "navigate_page", params |-> params,
                                              tab_id |-> made.tab_id]}
                 /\ UNCHANGED <<last, tick, issued, closed>>
    /\ UNCHANGED runs

\* The session object a handler holds, after the change, put where the
\* registry still holds that object (a closed session is no longer in it).
Mutated(T, id, tab) == IF id \in DOMAIN T THEN Put(T, id, tab) ELSE T

\* navigate_page from `tab["history"].append(url)` to its return.
NavigateAppends ==
    \E u \in pending :
        /\ u.tool = "navigate_page"
        /\ LET T == IF u.tab_id \in DOMAIN tabs
                    THEN Mutated(tabs, u.tab_id,
                                 [tabs[u.tab_id] EXCEPT !.history = Append(@, u.params.url)])
                    ELSE tabs
           IN  Completes("navigate_page", u.params,
                         Ok(T, counter, [tab_id |-> u.tab_id, url |-> u.params.url]))
        /\ pending' = pending \ {u}
        /\ UNCHANGED <<runs, nops>>

\* go_back up to `tab["history"].pop()`.
GoBackPops ==
    /\ ThreadFree
    /\ nops < MaxOps
    /\ nops' = nops + 1
    /\ \E tab_id \in TabArgs :
        LET params == [tab_id |-> tab_id]
            got == TabManager_get(tabs, counter, tab_id)
        IN  IF ~got.ok
            THEN /\ Completes("go_back", params, got)
                 /\ UNCHANGED pending
            ELSE IF Len(got.result.history) < 2
            THEN /\ Completes("go_back", params,
                              Raise(tabs, counter, "No history to go back to"))
                 /\ UNCHANGED pending
            ELSE /\ tabs' = Put(tabs, tab_id,
                                [got.result EXCEPT !.history = Front(@)])
                 /\ pending' = pending \cup {[tool |-> "go_back", params |-> params,
                                              tab_id |-> tab_id]}
                 /\ UNCHANGED <<counter, last, tick, issued, closed>>
    /\ UNCHANGED runs

\* go_back from `tab["url"] = tab["history"][-1]` to its return.  The handlers
\* between the two statements left the history non-empty or the subscript
\* raises IndexError.
GoBackSetsUrl ==
    \E u \in pending :
        /\ u.tool = "go_back"
        /\ LET open == u.tab_id \in DOMAIN tabs
               history == IF open THEN tabs[u.tab_id].history ELSE <<>>
           IN  IF history = <<>>
               THEN Completes("go_back", u.params,
                              Raise(tabs, counter, "list index out of range"))
               ELSE Completes("go_back", u.params,
                              Ok(Mutated(tabs, u.tab_id,
                                         [tabs[u.tab_id] EXCEPT !.url = Last(history)]),
                                 counter,
                                 [tab_id |-> u.tab_id, url |-> Last(history)]))
        /\ pending' = pending \ {u}
        /\ UNCHANGED <<runs, nops>>

\* A client invokes run_workflow(steps); the coroutine runs to its first await.
WorkflowEnters(r) == ThreadFree /\ StartCore(r)

\* The innermost frame of invocation r reaches `await app.run_tool(...)` for its
\* step: the step begins.  A step that is a nested run_workflow enters its frame.
StepBegins(r) ==
    /\ ThreadFree
    /\ runs[r].status = "running"
    /\ LET run == runs[r]
           stack == run.stack
           top == Last(stack)
           step == top.steps[top.idx]
           began == IF Len(stack) = 1
                    THEN [run EXCEPT !.started = @ \cup {top.idx}] ELSE run
           waiting == ReplaceTop(stack, Awaits(top))
       IN  /\ ~Finished(top)
           /\ top.idx \notin top.begun
           /\ Truthy(Get(step, "tool", None))
           /\ runs' = [runs EXCEPT ![r] =
                         IF EntersNested(top)
                         THEN Settle(began, Append(waiting, Frame(step.params.steps)))
                         ELSE [began EXCEPT !.stack = waiting]]
    /\ UNCHANGED <<tabs, counter, last, tick, issued, closed, pending, nops>>

\* The call the innermost frame of invocation r awaits returns or raises, and
\* the record is appended: the step completes.  A step without a tool raises
\* before any call.
StepCompletes(r) ==
    /\ ThreadFree
    /\ runs[r].status = "running"
    /\ LET run == runs[r]
           stack == run.stack
           top == Last(stack)
           outer == Len(stack) = 1
           missing == ~Finished(top) /\ ~Truthy(Get(top.steps[top.idx], "tool", None))
           k == IF missing THEN top.idx ELSE CHOOSE i \in top.begun : TRUE
           done == StepBody(tabs, counter, [top EXCEPT !.idx = k])
           began == IF outer THEN [run EXCEPT !.started = @ \cup {k}] ELSE run
           noted == IF outer /\ done.raised
                    THEN [began EXCEPT !.raised = @ \cup {k}] ELSE began
       IN  /\ missing \/ top.begun /= {}
           /\ runs' = [runs EXCEPT ![r] = Settle(noted, ReplaceTop(stack, done.frame))]
           /\ IF done.called
              THEN Completes(done.tool, done.params, done.out)
              ELSE UNCHANGED <<tabs, counter, last, tick, issued, closed>>
    /\ UNCHANGED <<nops, pending>>

NextAsync ==
    \/ NavigateSetsUrl
    \/ NavigateAppends
    \/ GoBackPops
    \/ GoBackSetsUrl
    \/ \E r \in AsyncRuns : WorkflowEnters(r)
    \/ \E r \in AsyncRuns : StepBegins(r)
    \/ \E r \in AsyncRuns : StepCompletes(r)

SpecAsync == InitAsync /\ [][NextAsync]_vars

-----------------------------------------------------------------------------
(* Vocabulary of the properties *)

\* A tool call completed in this step.
Called == tick' /= tick

\* The step completed a call of the tool, addressed to a tab id.
CalledOn(tool) == Called /\ last'.tool = tool /\ "tab_id" \in DOMAIN last'.params

\* Every session but id is left as it was.
OthersUnchanged(id) ==
    /\ DOMAIN tabs' \ {id} = DOMAIN tabs \ {id}
    /\ \A other \in DOMAIN tabs \ {id} : tabs'[other] = tabs[other]

\* The records of the frames in progress and of the returned traces.
IsSuccess(rec) == "result" \in DOMAIN rec /\ "error" \notin DOMAIN rec
IsError(rec) == "error" \in DOMAIN rec /\ "result" \notin DOMAIN rec

DoneRuns == {r \in Runs : runs[r].status = "done"}
Trace(r) == runs[r].ret.results

-----------------------------------------------------------------------------
(* C1: every open session has a non-empty history, and its url is the last
   element of its history. *)
C1_UrlIsLastOfHistory ==
    \A id \in DOMAIN tabs :
        /\ Len(tabs[id].history) >= 1
        /\ tabs[id].url = Last(tabs[id].history)

\* A session that was navigated and then went back is open.
C1_Witness ==
    /\ last.tool = "go_back" /\ last.ok
    /\ last.params.tab_id \in DOMAIN tabs
    /\ tabs[last.params.tab_id].url = DefaultUrl

-----------------------------------------------------------------------------
(* C2: the identifiers returned by session creations (new_tab, or
   navigate_page without a tab id) are pairwise distinct: a creation never
   returns an identifier an earlier creation returned, closed or not. *)
C2_IdsNeverReused ==
    [][(Called /\ last'.ok /\ Creates(last')) => last'.result.tab_id \notin issued]_vars

\* A creation after an earlier session was closed.
C2_Witness ==
    /\ last.ok /\ Creates(last)
    /\ closed /= {}
    /\ Cardinality(issued) >= 2

-----------------------------------------------------------------------------
(* C3 *)

UrlError == "URL must start with http or https"

\* get(id) fails with the not-found error and list_tabs does not show id.
Gone(T, c, id) ==
    /\ TabManager_get(T, c, id) = Raise(T, c, UnknownTab(id))
    /\ id \notin list_tabs(T, c).result.tabs

(* C3 as claimed: once close_tab(id) has succeeded, get(id) fails with the
   not-found error, id is not in list_tabs, and every call addressed to id
   fails with the not-found error. *)
C3_ClosedAlwaysNotFound ==
    [][/\ \A id \in closed' : Gone(tabs', counter', id)
       /\ (Called /\ AddressedTo(last') \in closed) =>
              ~last'.ok /\ last'.error = UnknownTab(AddressedTo(last'))]_vars

(* C3 as amended: once close_tab(id) has succeeded, get(id) fails with the
   not-found error, id is not in list_tabs, and every call addressed to id
   fails: with the not-found error, except that navigate_page with a location
   that does not start with "http" fails with the URL error. *)
C3_ClosedStaysClosed ==
    [][/\ \A id \in closed' : Gone(tabs', counter', id)
       /\ (Called /\ AddressedTo(last') \in closed) =>
              /\ ~last'.ok
              /\ IF last'.tool = "navigate_page" /\ ~StartsWith(last'.params.url, "http")
                 THEN last'.error = UrlError
                 ELSE last'.error = UnknownTab(AddressedTo(last'))]_vars

\* A second close_tab of a closed id has failed with the not-found error.
C3_Witness ==
    /\ last.tool = "close_tab" /\ ~last.ok
    /\ AddressedTo(last) \in closed
    /\ last.error = UnknownTab(AddressedTo(last))

-----------------------------------------------------------------------------
(* C4: run_workflow is fail-fast: when step k is the first submitted step
   that fails, the trace has exactly k records, records 1..k-1 are success
   records, record k is an error record, and no step after k is begun. *)
C4_FailFast ==
    \A r \in DoneRuns : \A k \in runs[r].raised :
        (\A j \in runs[r].raised : k <= j) =>
            /\ Len(Trace(r)) = k
            /\ \A i \in 1..(k - 1) : IsSuccess(Trace(r)[i])
            /\ IsError(Trace(r)[k])
            /\ runs[r].started = 1..k

\* Three steps were submitted and the second one failed.
C4_Witness ==
    \E r \in DoneRuns :
        /\ Len(runs[r].steps) = 3
        /\ runs[r].raised = {2}
        /\ Len(Trace(r)) = 2

-----------------------------------------------------------------------------
(* C5 as claimed: the trace is never longer than the submitted step list,
   and it is strictly shorter exactly when some step failed. *)
C5_ShorterIffFailed ==
    \A r \in DoneRuns :
        /\ Len(Trace(r)) <= Len(runs[r].steps)
        /\ (Len(Trace(r)) < Len(runs[r].steps)) <=> (runs[r].raised /= {})

(* C5 as amended: the trace is never longer than the submitted step list,
   and it is strictly shorter exactly when a step other than the last one
   failed. *)
C5_ShorterIffFailedEarly ==
    \A r \in DoneRuns :
        /\ Len(Trace(r)) <= Len(runs[r].steps)
        /\ (Len(Trace(r)) < Len(runs[r].steps))
               <=> (\E k \in runs[r].raised : k < Len(runs[r].steps))

\* The last of two steps failed: the trace is as long as the list.
C5_Witness ==
    \E r \in DoneRuns :
        /\ Len(runs[r].steps) = 2
        /\ runs[r].raised = {2}
        /\ Len(Trace(r)) = 2

-----------------------------------------------------------------------------
(* C6 *)

\* The result is one the step's action returns for the step's parameters.
ResultFits(step, result) ==
    LET tool == step.tool
        params == Get(step, "params", EmptyDict)
    IN  CASE tool = "new_tab" ->
               /\ result.tab_id \in issued
               /\ result.url = IF Truthy(Get(params, "url", None))
                               THEN params.url ELSE DefaultUrl
          [] tool = "navigate_page" ->
               /\ result.url = params.url
               /\ Truthy(Get(params, "tab_id", None)) => result.tab_id = params.tab_id
          [] tool = "go_back" ->
               /\ result.tab_id = params.tab_id
               /\ "url" \in DOMAIN result
          [] tool = "close_tab" ->
               result = [status |-> "closed", tab_id |-> params.tab_id]
          [] tool = "run_workflow" ->
               Len(result.results) <= Len(params.steps)
          [] OTHER -> TRUE

(* C6: when every step of a workflow succeeds, the trace is as long as the
   input, and the k-th record has index k (1-based), names the k-th submitted
   action and holds a result of that action. *)
C6_AllSucceed ==
    \A r \in DoneRuns :
        runs[r].raised = {} =>
            /\ Len(Trace(r)) = Len(runs[r].steps)
            /\ \A k \in 1..Len(Trace(r)) :
                 /\ IsSuccess(Trace(r)[k])
                 /\ Trace(r)[k].step = k
                 /\ Trace(r)[k].tool = runs[r].steps[k].tool
                 /\ ResultFits(runs[r].steps[k], Trace(r)[k].result)

\* A nested workflow and a navigation were submitted, and no step failed.
C6_Witness ==
    \E r \in DoneRuns :
        /\ Len(runs[r].steps) >= 2
        /\ runs[r].raised = {}
        /\ \E k \in 1..Len(runs[r].steps) : runs[r].steps[k].tool = "run_workflow"
        /\ \E k \in 1..Len(runs[r].steps) : runs[r].steps[k].tool = "navigate_page"

-----------------------------------------------------------------------------
(* C7: every record of a trace carries its 1-based index, exactly one of a
   result and an error, and, when the step supplied an action name, that
   name. *)
C7_RecordsNameTheAction ==
    \A r \in DoneRuns : \A k \in 1..Len(Trace(r)) :
        LET rec == Trace(r)[k]
            tool == Get(runs[r].steps[k], "tool", None)
        IN  /\ rec.step = k
            /\ IsSuccess(rec) \/ IsError(rec)
            /\ Truthy(tool) => ("tool" \in DOMAIN rec /\ rec.tool = tool)

-----------------------------------------------------------------------------
(* C8: go_back on an existing session with exactly one history entry fails
   with the invalid-state error and leaves the session (and the registry)
   unchanged; with two or more entries it removes exactly the last entry, sets
   the url to the new last entry and returns that url. *)
C8_GoBack ==
    [][\A id \in DOMAIN tabs :
         (CalledOn("go_back") /\ AddressedTo(last') = id) =>
            IF Len(tabs[id].history) = 1
            THEN /\ ~last'.ok
                 /\ last'.error = "No history to go back to"
                 /\ tabs' = tabs /\ counter' = counter
            ELSE /\ last'.ok
                 /\ id \in DOMAIN tabs'
                 /\ tabs'[id].history = Front(tabs[id].history)
                 /\ tabs'[id].url = Last(Front(tabs[id].history))
                 /\ tabs'[id].data = tabs[id].data
                 /\ last'.result = [tab_id |-> id, url |-> Last(Front(tabs[id].history))]
                 /\ OthersUnchanged(id) /\ counter' = counter]_vars

\* go_back has returned a session to the location it was opened at.
C8_Witness ==
    /\ last.tool = "go_back" /\ last.ok
    /\ tabs[AddressedTo(last)].history = <<DefaultUrl>>
    /\ last.result.url = DefaultUrl

-----------------------------------------------------------------------------
(* C9: navigate_page on an existing session id with an accepted location loc2
   leaves the session with the history it had with loc2 appended and url
   loc2, and returns the same session id. *)
C9_NavigateAppends ==
    [][\A id \in DOMAIN tabs :
         (/\ CalledOn("navigate_page") /\ AddressedTo(last') = id
          /\ StartsWith(last'.params.url, "http")) =>
            /\ last'.ok
            /\ id \in DOMAIN tabs'
            /\ tabs'[id].history = Append(tabs[id].history, last'.params.url)
            /\ tabs'[id].url = last'.params.url
            /\ tabs'[id].data = tabs[id].data
            /\ last'.result = [tab_id |-> id, url |-> last'.params.url]
            /\ OthersUnchanged(id) /\ counter' = counter]_vars

\* A session opened by new_tab was navigated twice.
C9_Witness ==
    /\ last.tool = "navigate_page" /\ last.ok
    /\ AddressedTo(last) \in DOMAIN tabs
    /\ Len(tabs[AddressedTo(last)].history) = 3

-----------------------------------------------------------------------------
(* C10 *)

\* new_tab succeeded and made one session, at location loc.
OpenedAt(loc) ==
    /\ last'.ok
    /\ last'.result.tab_id \notin DOMAIN tabs
    /\ DOMAIN tabs' = DOMAIN tabs \cup {last'.result.tab_id}
    /\ tabs'[last'.result.tab_id].url = loc
    /\ tabs'[last'.result.tab_id].history = <<loc>>
    /\ last'.result.url = loc

(* C10 as claimed: new_tab never fails; for every supplied location, the
   empty string included, the session is created at that location, and the
   default location is used only when none is supplied. *)
C10_NewTabAtAnyLocation ==
    [][(Called /\ last'.tool = "new_tab") =>
          LET loc == Get(last'.params, "url", None)
          IN  OpenedAt(IF loc /= None THEN loc ELSE DefaultUrl)]_vars

(* C10 as amended: new_tab never fails; for every supplied non-empty
   location the session is created at that location, and the default location
   is used when no location or the empty string is supplied. *)
C10_NewTabAtLocation ==
    [][(Called /\ last'.tool = "new_tab") =>
          LET loc == Get(last'.params, "url", None)
          IN  OpenedAt(IF loc /= None /\ loc /= "" THEN loc ELSE DefaultUrl)]_vars

\* new_tab has opened a session at a supplied location.
C10_Witness ==
    /\ last.tool = "new_tab" /\ last.ok
    /\ Truthy(Get(last.params, "url", None))
    /\ tabs[last.result.tab_id].history = <<last.params.url>>

-----------------------------------------------------------------------------
(* C11 *)

\* A well-formed absolute address with scheme http or https: the scheme, the
\* "://" separator and a non-empty remainder.
WellFormedHttp(url) ==
    \/ StartsWith(url, "http://") /\ Len(url) > Len("http://")
    \/ StartsWith(url, "https://") /\ Len(url) > Len("https://")

(* C11: navigate_page fails with the invalid-argument (URL) error for every
   location that is not a well-formed absolute address with scheme http or
   https. *)
C11_RejectsNonHttp ==
    [][(Called /\ last'.tool = "navigate_page" /\ ~WellFormedHttp(last'.params.url)) =>
          ~last'.ok /\ last'.error = UrlError]_vars


-----------------------------------------------------------------------------
(* C12 *)

\* The steps of the outermost frame of invocation r that have completed.
Completed(r) ==
    IF runs[r].status = "running" THEN Len(runs[r].stack[1].results)
    ELSE IF runs[r].status = "done" THEN Len(runs[r].ret.results)
    ELSE 0

(* C12: within one run_workflow invocation the steps execute one after
   another in list order, also while other invocations run: in every frame at
   most one step is in progress, it is the step after the completed ones, and
   every step before a step that has begun has completed. *)
C12_StepsInOrder ==
    \A r \in DOMAIN runs :
        /\ \A i \in 1..Len(runs[r].stack) :
               LET frame == runs[r].stack[i]
               IN  /\ Cardinality(frame.begun) <= 1
                   /\ frame.begun \subseteq {Len(frame.results) + 1}
        /\ \A k \in runs[r].started : k - 1 <= Completed(r)

\* Two invocations each have a step in progress, one of them its second step.
C12_Witness ==
    \E r, q \in DOMAIN runs :
        /\ r /= q
        /\ runs[r].status = "running" /\ runs[q].status = "running"
        /\ runs[r].stack[1].begun = {2}
        /\ runs[q].stack[1].begun /= {}


-----------------------------------------------------------------------------
(* C13 *)

\* The step is a handler going on with the update it had begun.
Resumes == pending' /= pending /\ pending' \subseteq pending

(* C13: the updates of url and history by concurrently running invocations,
   single actions and workflow steps alike, do not interleave: at most one
   update is in progress, every handler that starts to run finds each
   session's url equal to the last entry of its history, and every call that
   completes leaves it so. *)
C13_UpdatesSerialized ==
    [][/\ Cardinality(pending') <= 1
       /\ ~Resumes => C1_UrlIsLastOfHistory
       /\ Called => C1_UrlIsLastOfHistory']_vars

\* A navigation is between its two statements on the session that the step in
\* progress of a workflow invocation is addressed to.
C13_Witness ==
    \E u \in pending, r \in DOMAIN runs :
        /\ runs[r].status = "running"
        /\ LET top == Last(runs[r].stack)
           IN  /\ top.begun = {top.idx}
               /\ Get(Get(top.steps[top.idx], "params", EmptyDict), "tab_id", None) = u.tab_id
        /\ tabs[u.tab_id].url /= Last(tabs[u.tab_id].history)


-----------------------------------------------------------------------------
(* C14: an action addressed to a session (navigate_page, fill_form, go_back,
   close_tab, click_element, extract_data, capture_screenshot, generate_pdf),
   whether a client or a workflow step calls it and in whatever order the
   calls come, leaves the url, history and data of every other open session
   as they were and removes none of them from the registry. *)
C14_OtherSessionsUntouched ==
    [][(Called /\ Truthy(AddressedTo(last'))) => OthersUnchanged(AddressedTo(last'))]_vars

\* A form was filled in one session while another session is open.
C14_Witness ==
    /\ last.ok /\ last.tool = "fill_form"
    /\ DOMAIN tabs \ {AddressedTo(last)} /= {}

-----------------------------------------------------------------------------
(* C16 *)

BuiltIn ==
    {"navigate_page", "fill_form", "go_back", "close_tab", "click_element",
     "extract_data", "capture_screenshot", "generate_pdf"}

(* C16: a built-in action that fails has mutated nothing: after a failed
   navigate_page, fill_form, go_back, close_tab, click_element, extract_data,
   capture_screenshot or generate_pdf the open sessions, their url, history
   and data, and the id counter are what they were before the call. *)
C16_FailuresMutateNothing ==
    [][(Called /\ last'.tool \in BuiltIn /\ ~last'.ok) =>
           tabs' = tabs /\ counter' = counter]_vars

\* navigate_page failed on a bad location with no tab id, a session being open.
C16_Witness ==
    /\ last.tool = "navigate_page" /\ ~last.ok
    /\ last.error = UrlError
    /\ ~Truthy(last.params.tab_id)
    /\ tabs /= EmptyDict


-----------------------------------------------------------------------------
(* C15: run_workflow never propagates a failure to its caller: when a step
   of the list fails (its action name is absent or empty, its action is not
   registered, or its action raises) the invocation returns a trace whose last
   record is the error record of that step, carrying the message of the error;
   no failure goes without a record. *)
C15_FailuresAreRecorded ==
    [][\A r \in DOMAIN runs :
           runs'[r].raised /= runs[r].raised =>
               /\ runs'[r].status = "done"
               /\ runs'[r].ret.results /= <<>>
               /\ LET rec == Last(runs'[r].ret.results)
                      tool == Get(runs'[r].steps[rec.step], "tool", None)
                  IN  /\ IsError(rec)
                      /\ runs'[r].raised = runs[r].raised \cup {rec.step}
                      /\ IF Truthy(tool)
                         THEN /\ Called /\ last'.tool = tool /\ ~last'.ok
                              /\ rec.error = last'.error
                         ELSE /\ ~Called
                              /\ rec.error = "Step missing 'tool'"]_vars

\* A trace returned after a successful step and a step whose action raised.
C15_Witness ==
    \E r \in DoneRuns :
        /\ Len(Trace(r)) >= 2
        /\ IsError(Last(Trace(r)))
        /\ ~last.ok /\ Last(Trace(r)).error = last.error
        /\ last.error = UnknownTab(AddressedTo(last))


-----------------------------------------------------------------------------
(* C17 *)

\* Step k of invocation r invokes run_workflow.
IsNested(r, k) ==
    LET step == runs[r].steps[k]
    IN  /\ Get(step, "tool", None) = "run_workflow"
        /\ Binds("run_workflow", Get(step, "params", EmptyDict))

(* C17: a step that invokes run_workflow is recorded as a success by the
   outer workflow, whatever the nested trace ends in, and the outer workflow
   goes on with its next step: in a returned trace the record of every such
   step that began is a success record holding the nested trace, and it is
   followed by the record of the next step when the list has one. *)
C17_NestedFailureDoesNotHalt ==
    \A r \in DoneRuns :
        \A k \in runs[r].started :
            IsNested(r, k) =>
                /\ k <= Len(Trace(r))
                /\ IsSuccess(Trace(r)[k])
                /\ Trace(r)[k].tool = "run_workflow"
                /\ k < Len(runs[r].steps) => k < Len(Trace(r))

\* A returned trace in which a nested trace ends in an error record and the
\* outer workflow recorded its next step.
C17_Witness ==
    \E r \in DoneRuns :
        \E k \in 1..(Len(Trace(r)) - 1) :
            /\ IsNested(r, k)
            /\ IsSuccess(Trace(r)[k])
            /\ Trace(r)[k].result.results /= <<>>
            /\ IsError(Last(Trace(r)[k].result.results))


-----------------------------------------------------------------------------
(* C18: navigate_page without a tab id (absent or empty) and with an accepted
   location creates exactly one session, whose history is
   ["about:blank", location] and whose url is the location; a go_back on that
   session right afterwards succeeds and returns it to "about:blank". *)
C18_NavigateOpensBlankFirst ==
    [][(Called /\ last'.tool = "navigate_page" /\ last'.ok /\ ~Truthy(AddressedTo(last'))) =>
           LET id == last'.result.tab_id
               url == last'.params.url
               back == go_back(tabs', counter', id)
           IN  /\ id \notin DOMAIN tabs
               /\ DOMAIN tabs' = DOMAIN tabs \cup {id}
               /\ OthersUnchanged(id)
               /\ tabs'[id].history = <<DefaultUrl, url>>
               /\ tabs'[id].url = url
               /\ back.ok
               /\ back.result = [tab_id |-> id, url |-> DefaultUrl]
               /\ back.tabs[id].url = DefaultUrl
               /\ back.tabs[id].history = <<DefaultUrl>>]_vars

\* navigate_page with an empty tab id opened a session next to an open one.
C18_Witness ==
    /\ last.tool = "navigate_page" /\ last.ok
    /\ last.params.tab_id = ""
    /\ last.result.tab_id \in DOMAIN tabs
    /\ tabs[last.result.tab_id].history = <<DefaultUrl, last.params.url>>
    /\ Cardinality(DOMAIN tabs) >= 2

-----------------------------------------------------------------------------
(* C19 *)

ReadOnly ==
    {"click_element", "extract_data", "capture_screenshot", "generate_pdf", "list_tabs"}

(* C19: click_element, extract_data, capture_screenshot, generate_pdf and
   list_tabs leave the registry as it was (the open sessions, their url,
   history and data, and the id counter); fill_form changes nothing but the
   data of the session it is addressed to. *)
C19_ReadOnlyActions ==
    [][/\ (Called /\ last'.tool \in ReadOnly) => tabs' = tabs /\ counter' = counter
       /\ (Called /\ last'.tool = "fill_form") =>
              /\ counter' = counter
              /\ DOMAIN tabs' = DOMAIN tabs
              /\ OthersUnchanged(AddressedTo(last'))
              /\ \A id \in DOMAIN tabs :
                     /\ tabs'[id].url = tabs[id].url
                     /\ tabs'[id].history = tabs[id].history]_vars

\* A screenshot was taken of a session that has data and a history of two.
C19_Witness ==
    /\ last.tool = "capture_screenshot" /\ last.ok
    /\ Len(tabs[last.params.tab_id].history) = 2
    /\ tabs[last.params.tab_id].data /= EmptyDict


-----------------------------------------------------------------------------
(* C20: for every finite step list, lists with nested run_workflow steps
   included, a run_workflow invocation that is scheduled fairly returns a
   trace, also while other invocations act on the same registry: an
   invocation that is running is eventually done. *)
C20_WorkflowTerminates ==
    \A r \in Runs : (runs[r].status = "running") ~> (runs[r].status = "done")

\* An invocation whose only step is a nested run_workflow returned its trace;
\* the nested go_back found the session another client had opened.
C20_Witness ==
    \E r \in DoneRuns :
        /\ Len(runs[r].steps) = 1 /\ IsNested(r, 1)
        /\ Len(Trace(r)) = 1
        /\ Last(Trace(r)[1].result.results).error = "No history to go back to"

====
